---- MODULE Spec2Model ----
(***************************************************************************)
(* Model of tic_tac_toe_database/init_db.py: the SQLite schema initializer *)
(* of the Tic Tac Toe application.  The database file, its tables, indices *)
(* and the schema_migrations ledger are the state; the three public        *)
(* functions create_tables, is_schema_up_to_date and initialize_db are the *)
(* operations, executed one statement at a time so that a run can stop     *)
(* between any two statements.                                             *)
(***************************************************************************)
EXTENDS Integers, Sequences, FiniteSets, TLC

\* ------------------------------------------------------------------ bounds
MaxVersion == 2      \* ledger versions of a pre-existing database: 0..MaxVersion
MaxRows    == 1      \* rows held by each pre-existing data table: 0..MaxRows
MaxRuns    == 2      \* calls of the public functions in one behaviour

\* --------------------------------------------------------------- constants
DB_NAME == "myapp.db"
SCHEMA_VERSION == 1
CONN_FILE == "db_connection.txt"
ENV_DIR   == "db_visualizer"
ENV_FILE  == "db_visualizer/sqlite.env"

LEDGER == "schema_migrations"
DataTables == {"users", "games", "moves", "scores"}
IndexTable == [idx_users_username |-> "users",
               idx_games_status   |-> "games",
               idx_moves_gameid   |-> "moves"]
IndexNames == DOMAIN IndexTable

VARIABLES
    db,           \* committed content of myapp.db
    uncommitted,  \* ledger rows as the open connection sees them
    files,        \* metadata files and directories in the working directory
    op,           \* public function being executed, or "none"
    pc,           \* position inside that function
    stmt,         \* index of the next statement of create_tables
    db_exists,    \* local of initialize_db (line 119)
    checked,      \* is_schema_up_to_date has returned in this call
    ret,          \* its return value
    ctCalls,      \* calls of create_tables made by this call
    written,      \* metadata files written by this call
    pre,          \* database as it was when this call started
    prev,         \* how the previous call ended
    runs          \* calls started so far; also the clock of CURRENT_TIMESTAMP

vars == <<db, uncommitted, files, op, pc, stmt, db_exists, checked, ret,
          ctCalls, written, pre, prev, runs>>

\* ---------------------------------------------------------------- database
EmptyDb == [file    |-> FALSE,
            tables  |-> {},
            rows    |-> [t \in DataTables |-> 0],
            indices |-> {},
            ledger  |-> <<>>]

Versions(rows) == {rows[i].version : i \in 1..Len(rows)}

\* sqlite3.connect(DB_NAME) creates the file when it is absent
get_conn(d) == [d EXCEPT !.file = TRUE]

\* variant: DROP TABLE IF EXISTS t; CREATE TABLE t (...)
CreateTableReplacing(d, t) ==
    [d EXCEPT !.tables = @ \cup {t},
              !.rows   = [r \in DataTables |-> IF r = t THEN 0 ELSE d.rows[r]],
              !.ledger = IF t = LEDGER THEN <<>> ELSE @]

\* CREATE TABLE IF NOT EXISTS t (...)
CreateTableIfNotExists(d, t) ==
    IF t \in d.tables THEN d ELSE [d EXCEPT !.tables = @ \cup {t}]

\* CREATE INDEX IF NOT EXISTS i ON t (...)
CreateIndexIfNotExists(d, i) ==
    IF i \in d.indices THEN d ELSE [d EXCEPT !.indices = @ \cup {i}]

\* variant: INSERT OR REPLACE, which rewrites the row of a recorded version
InsertOrReplace(rows, v, now) ==
    IF v \in Versions(rows)
    THEN [i \in 1..Len(rows) |->
            IF rows[i].version = v THEN [version |-> v, applied_at |-> now]
            ELSE rows[i]]
    ELSE Append(rows, [version |-> v, applied_at |-> now])

\* variant: a ledger without the primary key, every INSERT adds a row
InsertAlways(rows, v, now) ==
    Append(rows, [version |-> v, applied_at |-> now])

\* INSERT OR IGNORE INTO schema_migrations (version) VALUES (v);
\* version is the PRIMARY KEY, applied_at defaults to CURRENT_TIMESTAMP
InsertOrIgnore(rows, v, now) ==
    IF v \in Versions(rows) THEN rows
    ELSE Append(rows, [version |-> v, applied_at |-> now])

\* SELECT MAX(version): the empty set stands for SQL NULL
RECURSIVE SqlMax(_)
SqlMax(rows) ==
    IF rows = <<>> THEN {}
    ELSE LET m == SqlMax(Tail(rows))
             v == Head(rows).version
         IN IF m = {} THEN {v}
            ELSE {CHOOSE x \in m \cup {v} : \A y \in m \cup {v} : y <= x}

\* ------------------------------------------------------------ create_tables
\* variant: the version is recorded and committed before the tables are created
StatementsVersionFirst ==
    << [kind |-> "table",  name |-> LEDGER],
       [kind |-> "insert", name |-> LEDGER],
       [kind |-> "commit", name |-> LEDGER],
       [kind |-> "table",  name |-> "users"],
       [kind |-> "index",  name |-> "idx_users_username"],
       [kind |-> "table",  name |-> "games"],
       [kind |-> "index",  name |-> "idx_games_status"],
       [kind |-> "table",  name |-> "moves"],
       [kind |-> "index",  name |-> "idx_moves_gameid"],
       [kind |-> "table",  name |-> "scores"] >>

Statements ==
    << [kind |-> "table",  name |-> LEDGER],
       [kind |-> "table",  name |-> "users"],
       [kind |-> "index",  name |-> "idx_users_username"],
       [kind |-> "table",  name |-> "games"],
       [kind |-> "index",  name |-> "idx_games_status"],
       [kind |-> "table",  name |-> "moves"],
       [kind |-> "index",  name |-> "idx_moves_gameid"],
       [kind |-> "table",  name |-> "scores"],
       [kind |-> "insert", name |-> LEDGER],
       [kind |-> "commit", name |-> LEDGER] >>

\* the statement raises sqlite3.OperationalError: no such table
StmtFails(d, s) ==
    \/ s.kind = "index" /\ s.name \notin d.indices /\ IndexTable[s.name] \notin d.tables
    \/ s.kind = "insert" /\ LEDGER \notin d.tables

\* ----------------------------------------------------- is_schema_up_to_date
\* cursor.fetchone() of an aggregate query: always one row
FetchMaxVersion(rows) == << SqlMax(rows) >>

\* variant: SELECT 1 FROM schema_migrations WHERE version = SCHEMA_VERSION
is_schema_up_to_date_recorded(rows) ==
    SCHEMA_VERSION \in Versions(rows)

is_schema_up_to_date(rows) ==
    LET row == FetchMaxVersion(rows)
    IN  IF row = <<>> THEN FALSE ELSE row[1] = {SCHEMA_VERSION}

\* variant: the schema is applied on every run
AfterCheckAlwaysApply(r) == "create_tables"

\* variant: the metadata files are written only when the schema was applied
AfterCheckSkipMetadata(r) == IF ~r THEN "create_tables" ELSE "done"

\* "if not is_schema_up_to_date(conn)": where initialize_db goes next
AfterCheck(r) == IF ~r THEN "create_tables" ELSE "write_conn"

\* ------------------------------------------------------------------ actions
Start(o, p) ==
    /\ pc = "idle"
    /\ runs < MaxRuns
    /\ runs' = runs + 1
    /\ op' = o
    /\ pc' = p
    /\ stmt' = 1
    /\ checked' = FALSE
    /\ ret' = FALSE
    /\ ctCalls' = 0
    /\ written' = {}

\* initialize_db(), lines 118-119
CallInitializeDb ==
    /\ Start("initialize_db", "get_conn")
    /\ db_exists' = db.file
    /\ pre' = db
    /\ UNCHANGED <<db, uncommitted, files, prev>>

\* initialize_db(), line 120
GetConn ==
    /\ op = "initialize_db" /\ pc = "get_conn"
    /\ db' = get_conn(db)
    /\ uncommitted' = db.ledger
    /\ pc' = "check"
    /\ UNCHANGED <<files, op, stmt, db_exists, checked, ret, ctCalls, written,
                   pre, prev, runs>>

\* create_tables(conn) called on a connection the caller opened with get_conn
CallCreateTables ==
    /\ Start("create_tables", "create_tables")
    /\ db' = get_conn(db)
    /\ uncommitted' = db.ledger
    /\ pre' = db
    /\ UNCHANGED <<files, db_exists, prev>>

\* is_schema_up_to_date(conn) called on a connection the caller opened
CallIsSchemaUpToDate ==
    /\ Start("is_schema_up_to_date", "check")
    /\ db' = get_conn(db)
    /\ uncommitted' = db.ledger
    /\ pre' = db
    /\ UNCHANGED <<files, db_exists, prev>>

\* lines 110-113, and the branch of line 127
CheckSchema ==
    /\ pc = "check"
    /\ IF LEDGER \notin db.tables
       THEN /\ pc' = "error"
            /\ UNCHANGED <<checked, ret>>
       ELSE /\ checked' = TRUE
            /\ ret' = is_schema_up_to_date(uncommitted)
            /\ pc' = IF op = "initialize_db" THEN AfterCheck(ret') ELSE "done"
    /\ UNCHANGED <<db, uncommitted, files, op, stmt, db_exists, ctCalls,
                   written, pre, prev, runs>>

\* one cursor.execute of create_tables, or its conn.commit(), lines 30-105
ExecStatement ==
    /\ pc = "create_tables"
    /\ LET s == Statements[stmt] IN
       IF StmtFails(db, s)
       THEN /\ pc' = "error"
            /\ UNCHANGED <<db, uncommitted, stmt>>
       ELSE /\ db' = CASE s.kind = "table"  -> CreateTableIfNotExists(db, s.name)
                       [] s.kind = "index"  -> CreateIndexIfNotExists(db, s.name)
                       [] s.kind = "insert" -> db
                       [] s.kind = "commit" -> [db EXCEPT !.ledger = uncommitted]
            /\ uncommitted' = IF s.kind = "insert"
                              THEN InsertOrIgnore(uncommitted, SCHEMA_VERSION, runs)
                              ELSE uncommitted
            /\ stmt' = stmt + 1
            /\ pc' = IF stmt < Len(Statements) THEN "create_tables"
                     ELSE IF op = "initialize_db" THEN "write_conn" ELSE "done"
    /\ ctCalls' = IF stmt = 1 THEN ctCalls + 1 ELSE ctCalls
    /\ UNCHANGED <<files, op, db_exists, checked, ret, written, pre, prev, runs>>

\* lines 136-140
WriteConnectionFile ==
    /\ pc = "write_conn"
    /\ files' = files \cup {CONN_FILE}
    /\ written' = written \cup {CONN_FILE}
    /\ pc' = "makedirs"
    /\ UNCHANGED <<db, uncommitted, op, stmt, db_exists, checked, ret, ctCalls,
                   pre, prev, runs>>

\* line 143
MakeVisualizerDir ==
    /\ pc = "makedirs"
    /\ files' = files \cup {ENV_DIR}
    /\ pc' = "write_env"
    /\ UNCHANGED <<db, uncommitted, op, stmt, db_exists, checked, ret, ctCalls,
                   written, pre, prev, runs>>

\* lines 144-145
WriteEnvFile ==
    /\ pc = "write_env"
    /\ files' = files \cup {ENV_FILE}
    /\ written' = written \cup {ENV_FILE}
    /\ pc' = "done"
    /\ UNCHANGED <<db, uncommitted, op, stmt, db_exists, checked, ret, ctCalls,
                   pre, prev, runs>>

\* the call has ended (returned, or raised): the connection is dropped and
\* what it had not committed is rolled back
Return ==
    /\ pc \in {"done", "error"}
    /\ prev' = [op |-> op, end |-> pc, ctCalls |-> ctCalls]
    /\ pc' = "idle"
    /\ uncommitted' = db.ledger
    /\ UNCHANGED <<db, files, op, stmt, db_exists, checked, ret, ctCalls,
                   written, pre, runs>>

\* the process stops between two statements; an open transaction is lost
Interrupt ==
    /\ pc \notin {"idle", "done", "error"}
    /\ prev' = [op |-> op, end |-> "interrupted", ctCalls |-> ctCalls]
    /\ pc' = "idle"
    /\ uncommitted' = db.ledger
    /\ UNCHANGED <<db, files, op, stmt, db_exists, checked, ret, ctCalls,
                   written, pre, runs>>

Next ==
    \/ CallInitializeDb
    \/ GetConn
    \/ CallCreateTables
    \/ CallIsSchemaUpToDate
    \/ CheckSchema
    \/ ExecStatement
    \/ WriteConnectionFile
    \/ MakeVisualizerDir
    \/ WriteEnvFile
    \/ Return
    \/ Interrupt

\* ------------------------------------------------------------ initial states
InitControl ==
    /\ uncommitted = db.ledger
    /\ op = "none"
    /\ pc = "idle"
    /\ stmt = 1
    /\ db_exists = FALSE
    /\ checked = FALSE
    /\ ret = FALSE
    /\ ctCalls = 0
    /\ written = {}
    /\ pre = db
    /\ prev = [op |-> "none", end |-> "none", ctCalls |-> 0]
    /\ runs = 0

\* no database file, no tables, no metadata files
Init ==
    /\ db = EmptyDb
    /\ files = {}
    /\ InitControl

RECURSIVE LedgerOf(_, _)
\* the rows of a ledger holding the versions vs, lowest first, applied at time 0
LedgerOf(vs, from) ==
    IF from > MaxVersion THEN <<>>
    ELSE IF from \in vs
         THEN <<[version |-> from, applied_at |-> 0]>> \o LedgerOf(vs, from + 1)
         ELSE LedgerOf(vs, from + 1)

\* the databases a call may find: any tables, an index only on an existing
\* table, rows only in existing tables, ledger rows only in an existing ledger
ExistingDbs ==
    { [file    |-> f,
       tables  |-> ts,
       rows    |-> [t \in DataTables |-> IF t \in ts THEN n ELSE 0],
       indices |-> is,
       ledger  |-> LedgerOf(vs, 0)] :
         f \in BOOLEAN, ts \in SUBSET (DataTables \cup {LEDGER}),
         n \in 0..MaxRows, is \in SUBSET IndexNames, vs \in SUBSET (0..MaxVersion) }

WellFormedDb(d) ==
    /\ \A i \in d.indices : IndexTable[i] \in d.tables
    /\ d.ledger # <<>> => LEDGER \in d.tables
    /\ d.tables # {} => d.file

InitAny ==
    /\ db \in {d \in ExistingDbs : WellFormedDb(d)}
    /\ files \in {{}, {CONN_FILE, ENV_DIR, ENV_FILE}}
    /\ InitControl

Spec    == Init /\ [][Next]_vars
SpecAny == InitAny /\ [][Next]_vars

\* ------------------------------------------------------------------- claims
AllTables == DataTables \cup {LEDGER}

SchemaComplete(d) ==
    /\ AllTables \subseteq d.tables
    /\ IndexNames \subseteq d.indices
    /\ SCHEMA_VERSION \in Versions(d.ledger)

\* every table, index and row of a is in b, unchanged
Preserved(a, b) ==
    /\ a.tables \subseteq b.tables
    /\ a.indices \subseteq b.indices
    /\ \A t \in a.tables \cap DataTables : b.rows[t] = a.rows[t]
    /\ \A i \in 1..Len(a.ledger) : \E j \in 1..Len(b.ledger) : b.ledger[j] = a.ledger[i]

OneRowPerVersion(rows) ==
    \A i, j \in 1..Len(rows) : rows[i].version = rows[j].version => i = j

MetadataStage == {"write_conn", "makedirs", "write_env", "done"}

\* C1: a call of initialize_db on a store with no database file and no tables
\* completes without error, with all tables and indices present and
\* SCHEMA_VERSION in the ledger.
C1_InitializeEmptyStore ==
    (op = "initialize_db" /\ pre = EmptyDb /\ pc \in {"done", "error"})
        => (pc = "done" /\ SchemaComplete(db))

\* C2: a second call of create_tables directly after a completed one, and a
\* second run of initialize_db directly after a completed one, change no
\* table, index or ledger row.
C2_Idempotent ==
    (/\ op \in {"create_tables", "initialize_db"} /\ pc # "idle"
     /\ prev.op = op /\ prev.end = "done")
        => (db = pre /\ uncommitted = pre.ledger)

C2_Witness ==
    /\ op = "create_tables" /\ pc = "done"
    /\ prev.op = "create_tables" /\ prev.end = "done"
    /\ runs = 2
    /\ [version |-> SCHEMA_VERSION, applied_at |-> 1] \in
           {db.ledger[i] : i \in 1..Len(db.ledger)}

\* C3: in a run of initialize_db, when is_schema_up_to_date returned true
\* create_tables is not called and the database is unchanged; when it
\* returned false create_tables is called exactly once.
C3_ApplyOnlyIfOutdated ==
    (op = "initialize_db" /\ checked)
        => /\ ret => (ctCalls = 0 /\ db = pre)
           /\ (~ret /\ pc \in MetadataStage) => ctCalls = 1
           /\ ctCalls <= 1

C3_Witness ==
    /\ op = "initialize_db" /\ pc = "done" /\ checked /\ ret
    /\ ctCalls = 0
    /\ prev.op = "initialize_db" /\ prev.end = "done" /\ prev.ctCalls = 1

\* C4: a completed run of initialize_db has written db_connection.txt and
\* db_visualizer/sqlite.env, and a run writes them only after the schema
\* check has returned and create_tables, if called, has committed.
C4_MetadataWritten ==
    /\ (op = "initialize_db" /\ pc = "done")
           => (written = {CONN_FILE, ENV_FILE} /\ written \subseteq files)
    /\ written # {}
           => /\ op = "initialize_db" /\ checked
              /\ ~ret => (ctCalls = 1 /\ stmt = Len(Statements) + 1)

C4_Witness ==
    /\ op = "initialize_db" /\ pc = "done" /\ ret /\ ctCalls = 0
    /\ written = {CONN_FILE, ENV_FILE}
    /\ prev.op = "create_tables" /\ prev.end = "done"

\* C5: every table, index, data row and ledger row present before a call of
\* create_tables is present and unchanged at every point of the call.
C5_CreateTablesPreserves ==
    ctCalls >= 1 => Preserved(pre, db)

C5_Witness ==
    /\ op = "create_tables" /\ pc = "done"
    /\ pre.rows["users"] > 0
    /\ pre.ledger # <<>>
    /\ "scores" \notin pre.tables
    /\ SchemaComplete(db)

C7_OneRowPerVersion ==
    /\ OneRowPerVersion(db.ledger)
    /\ OneRowPerVersion(uncommitted)
    /\ ctCalls >= 1 =>
         /\ Len(db.ledger) <= Len(pre.ledger) + 1
         /\ \A i \in 1..Len(db.ledger) :
                (\A j \in 1..Len(pre.ledger) : pre.ledger[j] # db.ledger[i])
                    => db.ledger[i].version = SCHEMA_VERSION
         /\ SCHEMA_VERSION \in Versions(pre.ledger)
                => (db.ledger = pre.ledger /\ uncommitted = pre.ledger)

C7_Witness ==
    /\ op = "create_tables" /\ pc = "done"
    /\ pre.ledger # <<>>
    /\ SCHEMA_VERSION \notin Versions(pre.ledger)
    /\ Len(db.ledger) = Len(pre.ledger) + 1

\* C8: after a completed run of initialize_db is_schema_up_to_date returns
\* true, whatever versions the ledger held before the run.
C8_UpToDateAfterRun ==
    (op = "initialize_db" /\ pc = "done") => is_schema_up_to_date(db.ledger)

\* C9: in every state reached from the empty store, runs that stop between
\* two statements included, a ledger that contains SCHEMA_VERSION comes with
\* all four data tables and all three indices.
C9_VersionRecordedLast ==
    SCHEMA_VERSION \in Versions(db.ledger)
        => (DataTables \subseteq db.tables /\ IndexNames \subseteq db.indices)

C9_Witness ==
    /\ SCHEMA_VERSION \in Versions(db.ledger)
    /\ op = "initialize_db" /\ pc = "done" /\ ctCalls = 1
    /\ prev.op = "create_tables" /\ prev.end = "interrupted"

\* C10: the run of initialize_db that follows a run interrupted before the
\* version was recorded completes without error, with all tables and indices
\* present and SCHEMA_VERSION recorded.
C10_NextRunRepairs ==
    (/\ op = "initialize_db" /\ pc \in {"done", "error"}
     /\ prev.op = "initialize_db" /\ prev.end = "interrupted"
     /\ SCHEMA_VERSION \notin Versions(pre.ledger))
        => (pc = "done" /\ SchemaComplete(db))

TypeOK ==
    /\ pc \in {"idle", "get_conn", "check", "create_tables", "write_conn",
               "makedirs", "write_env", "done", "error"}
    /\ stmt \in 1..(Len(Statements) + 1)
    /\ runs \in 0..MaxRuns
====
